---- MODULE Spec2Model ----
(***************************************************************************)
(* Model of browser_use/telemetry/service.py: the ProductTelemetry         *)
(* singleton, its constructor, capture / _direct_capture and the user_id   *)
(* property, together with the three things it talks to: the process       *)
(* environment, the identity file and the MongoDB collection.              *)
(*                                                                         *)
(* Python strings whose content the code inspects (lower(), strip(), the   *)
(* truth test of user_id) are sequences of one-character strings.          *)
(***************************************************************************)
EXTENDS Integers, Sequences, FiniteSets, TLC

VARIABLES
    pc,                 \* "uninit": singleton not constructed yet; "ready": constructed
    environ,            \* os.environ of the running process
    telemetry_disabled, \* local of __init__ (line 41), kept for observation
    debug_logging,      \* self.debug_logging
    mongo_client,       \* self._mongo_client: "None" or "Client"
    connect,            \* how MongoClient(MONGO_URI) went in this process: "none" (not called), "ok", "failed"
    curr_user_id,       \* self._curr_user_id: [isNone, v]
    file,               \* the identity file at USER_ID_PATH: [exists, content]
    collection,         \* the documents stored in the collection: [own, doc], own: stored by the running process
    attempts,           \* number of insert_one calls so far
    clock,              \* source of uuid.uuid1().time
    resolved,           \* TRUE once user_id has been evaluated to completion in this process
    written,            \* the value the program persisted, while nobody else touched the file since
    last,               \* what the last operation did, as its caller and the outside saw it
    threads             \* per calling thread: where its capture call stands, and its locals

vars == <<pc, environ, telemetry_disabled, debug_logging, mongo_client, connect,
          curr_user_id, file, collection, attempts, clock, resolved, written, last,
          threads>>

(***************************************************************************)
(* Bounds                                                                  *)
(***************************************************************************)
MaxInserts == 2

(***************************************************************************)
(* Strings                                                                 *)
(***************************************************************************)
Whitespace == {" ", "\n", "\t"}

\* Lower case of one character, for the letters the environment values contain.
LowerChar(c) ==
    CASE c = "F" -> "f"
      [] c = "A" -> "a"
      [] c = "L" -> "l"
      [] c = "S" -> "s"
      [] c = "E" -> "e"
      [] c = "D" -> "d"
      [] c = "B" -> "b"
      [] c = "U" -> "u"
      [] c = "G" -> "g"
      [] c = "T" -> "t"
      [] c = "R" -> "r"
      [] OTHER -> c

\* str.lower()
Lower(s) == [i \in 1..Len(s) |-> LowerChar(s[i])]

RECURSIVE LStrip(_)
LStrip(s) == IF s /= <<>> /\ Head(s) \in Whitespace THEN LStrip(Tail(s)) ELSE s

RECURSIVE RStrip(_)
RStrip(s) ==
    IF s /= <<>> /\ s[Len(s)] \in Whitespace THEN RStrip(SubSeq(s, 1, Len(s) - 1)) ELSE s

\* str.strip()
Strip(s) == RStrip(LStrip(s))

STR_false == <<"f", "a", "l", "s", "e">>
STR_False == <<"F", "a", "l", "s", "e">>
STR_true == <<"t", "r", "u", "e">>
STR_debug == <<"d", "e", "b", "u", "g">>
STR_DEBUG == <<"D", "E", "B", "U", "G">>
STR_info == <<"i", "n", "f", "o">>

(***************************************************************************)
(* Program constants                                                       *)
(***************************************************************************)
UNKNOWN_USER_ID == <<"U", "N", "K", "N", "O", "W", "N">>

TELEMETRY_EVENT_SETTINGS == [process_person_profile |-> "True"]

\* Values str(uuid.uuid4()) can give: never empty, no whitespace, never "UNKNOWN".
Uuid4Values == {<<"a", "1">>, <<"b", "2">>}

None == [isNone |-> TRUE, v |-> <<>>]
Some(s) == [isNone |-> FALSE, v |-> s]

\* Python's truth test of self._curr_user_id (line 87): None and "" are false.
Truthy(x) == ~x.isNone /\ x.v /= <<>>

(***************************************************************************)
(* The environment of the process                                          *)
(***************************************************************************)
Unset == [set |-> FALSE, v |-> <<>>]
SetTo(s) == [set |-> TRUE, v |-> s]

Env(t, l) == [ANONYMIZED_TELEMETRY |-> t, BROWSER_USE_LOGGING_LEVEL |-> l]

\* The environments a process is started in.
Environs ==
    {Env(Unset, Unset), Env(SetTo(STR_true), SetTo(STR_DEBUG)),
     Env(SetTo(STR_False), SetTo(STR_debug))}

\* os.getenv(name, default)
Getenv(name, default) == IF environ[name].set THEN environ[name].v ELSE default

(***************************************************************************)
(* The identity file.  The mode of a user_id evaluation says which system  *)
(* calls on USER_ID_PATH fail while it runs:                               *)
(*   ok          none                                                      *)
(*   noaccess    the directory cannot be searched: stat and open fail      *)
(*   nodir       the parent directory is missing and cannot be created     *)
(*   readonly    the directory and the file cannot be written              *)
(*   unreadable  the file cannot be opened for reading                     *)
(*   diskfull    the file can be created, its data cannot be flushed       *)
(*   readerr     the file opens, reading it fails                          *)
(***************************************************************************)
FsModes == {"ok", "noaccess", "nodir", "readonly", "unreadable", "diskfull", "readerr"}

Absent == [exists |-> FALSE, content |-> <<>>]
Present(s) == [exists |-> TRUE, content |-> s]

\* Contents somebody other than this program may have put into the file.
ForeignContents == {<<>>, <<" ", "\n">>, <<"c", "3", "\n">>}

\* The states somebody else may leave the file in.
Files == {Absent} \cup {Present(s) : s \in ForeignContents}

\* The modes the file system can be in around file f: a missing parent directory
\* implies a missing file.
ModesOf(f) == {mode \in FsModes : mode = "nodir" => ~f.exists}

Io(op, ok) == [op |-> op, ok |-> ok]

\* PathExists with a test that never finds the file.
PathExistsNever(f, mode) == FALSE

\* os.path.exists: True iff os.stat succeeds; an OSError of stat gives False.
\* What makes stat fail on an existing path (noaccess) makes open fail too.
PathExists(f, mode) == f.exists /\ mode /= "noaccess"

MakedirsFails(mode) == mode = "nodir"
OpenWriteFails(mode) == mode \in {"noaccess", "readonly"}
WriteFails(mode) == mode = "diskfull"
OpenReadFails(mode) == mode \in {"noaccess", "unreadable"}
ReadFails(mode) == mode = "readerr"

(***************************************************************************)
(* user_id (lines 85-102)                                                  *)
(***************************************************************************)
\* UserIdTry with a failed write of the new identifier going unnoticed.
UserIdTryIgnoreWriteError(cur, f, mode, new_user_id) ==
    IF ~PathExists(f, mode)
    THEN LET statIo == <<Io("exists", mode /= "noaccess")>> IN
         IF MakedirsFails(mode) \/ OpenWriteFails(mode)
         THEN [exc |-> FALSE, cur |-> Some(new_user_id), file |-> f,
               io |-> statIo \o <<Io("makedirs", ~MakedirsFails(mode)), Io("open_w", FALSE)>>]
         ELSE IF WriteFails(mode)
         THEN [exc |-> FALSE, cur |-> Some(new_user_id), file |-> Present(<<>>),
               io |-> statIo \o <<Io("makedirs", TRUE), Io("open_w", TRUE),
                                  Io("write", FALSE)>>]
         ELSE [exc |-> FALSE, cur |-> Some(new_user_id), file |-> Present(new_user_id),
               io |-> statIo \o <<Io("makedirs", TRUE), Io("open_w", TRUE),
                                  Io("write", TRUE)>>]
    ELSE IF OpenReadFails(mode)
         THEN [exc |-> TRUE, cur |-> cur, file |-> f,
               io |-> <<Io("exists", TRUE), Io("open_r", FALSE)>>]
         ELSE IF ReadFails(mode)
         THEN [exc |-> TRUE, cur |-> cur, file |-> f,
               io |-> <<Io("exists", TRUE), Io("open_r", TRUE), Io("read", FALSE)>>]
         ELSE [exc |-> FALSE, cur |-> Some(Strip(f.content)), file |-> f,
               io |-> <<Io("exists", TRUE), Io("open_r", TRUE), Io("read", TRUE)>>]

\* Lines 91-99, the body of the try statement.  exc: an exception left the
\* body; cur: self._curr_user_id afterwards; file: the file afterwards;
\* io: the file system calls made, each with whether it succeeded.
UserIdTry(cur, f, mode, new_user_id) ==
    IF ~PathExists(f, mode)
    THEN LET statIo == <<Io("exists", mode /= "noaccess")>> IN
         IF MakedirsFails(mode)
         THEN [exc |-> TRUE, cur |-> cur, file |-> f,
               io |-> statIo \o <<Io("makedirs", FALSE)>>]
         ELSE IF OpenWriteFails(mode)
         THEN [exc |-> TRUE, cur |-> cur, file |-> f,
               io |-> statIo \o <<Io("makedirs", TRUE), Io("open_w", FALSE)>>]
         ELSE IF WriteFails(mode)
         THEN \* open(..., "w") has created or truncated the file
              [exc |-> TRUE, cur |-> cur, file |-> Present(<<>>),
               io |-> statIo \o <<Io("makedirs", TRUE), Io("open_w", TRUE),
                                  Io("write", FALSE)>>]
         ELSE [exc |-> FALSE, cur |-> Some(new_user_id), file |-> Present(new_user_id),
               io |-> statIo \o <<Io("makedirs", TRUE), Io("open_w", TRUE),
                                  Io("write", TRUE)>>]
    ELSE IF OpenReadFails(mode)
         THEN [exc |-> TRUE, cur |-> cur, file |-> f,
               io |-> <<Io("exists", TRUE), Io("open_r", FALSE)>>]
         ELSE IF ReadFails(mode)
         THEN [exc |-> TRUE, cur |-> cur, file |-> f,
               io |-> <<Io("exists", TRUE), Io("open_r", TRUE), Io("read", FALSE)>>]
         ELSE [exc |-> FALSE, cur |-> Some(Strip(f.content)), file |-> f,
               io |-> <<Io("exists", TRUE), Io("open_r", TRUE), Io("read", TRUE)>>]

\* UserIdExcept without the fallback assignment.
UserIdExceptNoFallback(t) == t

\* Lines 100-101: except Exception.
UserIdExcept(t) == [t EXCEPT !.cur = Some(UNKNOWN_USER_ID)]

\* UserIdCached with the fallback value not counting as resolved.
UserIdCachedUnlessUnknown(cur) == Truthy(cur) /\ cur.v /= UNKNOWN_USER_ID

\* Line 87: the cache test.
UserIdCached(cur) == Truthy(cur)

\* The property as a whole.  ret: the value returned (line 88 or line 102).
UserId(cur, f, mode, new_user_id) ==
    IF UserIdCached(cur)
    THEN [ret |-> cur.v, cur |-> cur, file |-> f, io |-> <<>>, exc |-> FALSE]
    ELSE LET t == UserIdTry(cur, f, mode, new_user_id)
             r == IF t.exc THEN UserIdExcept(t) ELSE t
         IN  [ret |-> r.cur.v, cur |-> r.cur, file |-> r.file, io |-> r.io, exc |-> t.exc]

(***************************************************************************)
(* Events, records and log lines                                           *)
(***************************************************************************)
\* BaseTelemetryEvent values a caller may pass: a name and a properties dict.
Events ==
    {[name |-> "x", properties |-> [a |-> "1"]],
     [name |-> "", properties |-> [a |-> "2", process_person_profile |-> "False"]]}

NoEvent == [name |-> "-", properties |-> [a |-> "-"]]

\* DictMerge with the operands in the other order: d1 wins.
DictMergeFirstWins(d1, d2) ==
    [k \in DOMAIN d1 \cup DOMAIN d2 |-> IF k \in DOMAIN d1 THEN d1[k] ELSE d2[k]]

\* {**d1, **d2} (line 76): the keys of both, d2 winning where both have the key.
DictMerge(d1, d2) ==
    [k \in DOMAIN d1 \cup DOMAIN d2 |-> IF k \in DOMAIN d2 THEN d2[k] ELSE d1[k]]

\* Lines 73-78.
MakeDoc(uid, event, time) ==
    [user_id |-> uid,
     event_name |-> event.name,
     properties |-> DictMerge(event.properties, TELEMETRY_EVENT_SETTINGS),
     timestamp |-> time]

Log(level, msg, name) == [level |-> level, msg |-> msg, name |-> name]

\* Outcomes of self._collection.insert_one(doc).
InsertOutcomes == {"ok", "connection_lost", "rejected"}

\* Outcomes of MongoClient(self.MONGO_URI) and the two lookups after it.
ConnectOutcomes == {"ok", "failed"}

\* What one operation did.  raised: an exception reached the caller.
NoObs ==
    [op |-> "none", raised |-> FALSE, logs |-> <<>>, io |-> <<>>,
     trace |-> <<>>, event |-> NoEvent, enabled |-> FALSE, inserted |-> 0, stored |-> 0,
     ret |-> None, cachedBefore |-> None, resolvedBefore |-> FALSE,
     absentBefore |-> FALSE, generated |-> <<>>, fsError |-> FALSE]

\* The threads of the application that call capture.
Threads == {"A", "B"}

\* A thread outside capture.  at: the statement it is about to execute; val:
\* the value it is about to assign to _curr_user_id; ret: what user_id returned
\* to it; first: its call found the identity unset; absentAtCall: the file did
\* not exist when it called.
IdleThread ==
    [at |-> "idle", event |-> NoEvent, val |-> <<>>, ret |-> None, logs |-> <<>>,
     first |-> FALSE, absentAtCall |-> FALSE]

(***************************************************************************)
(* __init__ (lines 40-55)                                                  *)
(***************************************************************************)
\* TelemetryDisabled without .lower().
TelemetryDisabledCaseSensitive == Getenv("ANONYMIZED_TELEMETRY", STR_true) = STR_false

\* Line 41.
TelemetryDisabled == Lower(Getenv("ANONYMIZED_TELEMETRY", STR_true)) = STR_false

\* Line 42.
DebugLogging == Lower(Getenv("BROWSER_USE_LOGGING_LEVEL", STR_info)) = STR_debug

\* InitClient without line 55: the handle survives a failed connection.
InitClientKeepsHandle(disabled, conn) ==
    IF disabled
    THEN [client |-> "None", logs |-> <<Log("debug", "disabled", "")>>, raised |-> FALSE]
    ELSE IF conn = "ok"
    THEN [client |-> "Client", logs |-> <<Log("info", "enabled", "")>>, raised |-> FALSE]
    ELSE [client |-> "Client",
          logs |-> <<Log("info", "enabled", ""), Log("error", "failed_connect", "")>>,
          raised |-> FALSE]

\* Lines 44-55: the client handle and the log lines, given how connecting went.
InitClient(disabled, conn) ==
    IF disabled
    THEN [client |-> "None", logs |-> <<Log("debug", "disabled", "")>>, raised |-> FALSE]
    ELSE IF conn = "ok"
    THEN [client |-> "Client", logs |-> <<Log("info", "enabled", "")>>, raised |-> FALSE]
    ELSE [client |-> "None",
          logs |-> <<Log("info", "enabled", ""), Log("error", "failed_connect", "")>>,
          raised |-> FALSE]

Construct ==
    /\ pc = "uninit"
    /\ \E conn \in IF TelemetryDisabled THEN {"none"} ELSE ConnectOutcomes :
         LET c == InitClient(TelemetryDisabled, conn) IN
         /\ connect' = conn
         /\ telemetry_disabled' = TelemetryDisabled
         /\ debug_logging' = DebugLogging
         /\ mongo_client' = c.client
         /\ last' = [NoObs EXCEPT !.op = "init", !.raised = c.raised,
                                  !.logs = c.logs, !.enabled = c.client /= "None"]
    /\ pc' = "ready"
    /\ UNCHANGED <<environ, curr_user_id, file, collection, attempts, clock, resolved,
                   written, threads>>

(***************************************************************************)
(* capture and _direct_capture (lines 57-83)                               *)
(***************************************************************************)
\* Lines 72-81, the body of the try statement, after user_id gave u.
\* DirectCaptureTry with the confirmation line written before insert_one is called.
DirectCaptureTryLogsFirst(event, u, w, debug, time) ==
    LET doc == MakeDoc(u.ret, event, time) IN
    [exc |-> w /= "ok",
     doc |-> doc,
     ok |-> w = "ok",
     inserted |-> 1,
     logs |-> IF debug THEN <<Log("debug", "stored", event.name)>> ELSE <<>>,
     trace |-> (IF debug THEN <<"log:stored">> ELSE <<>>) \o <<"insert_one">>]

\* inserted: the insert_one calls made; trace: those calls and the log lines
\* in the order they happened.
DirectCaptureTry(event, u, w, debug, time) ==
    LET doc == MakeDoc(u.ret, event, time) IN
    [exc |-> w /= "ok",
     doc |-> doc,
     ok |-> w = "ok",
     inserted |-> 1,
     logs |-> IF w = "ok" /\ debug THEN <<Log("debug", "stored", event.name)>> ELSE <<>>,
     trace |-> <<"insert_one">> \o (IF w = "ok" /\ debug THEN <<"log:stored">> ELSE <<>>)]

\* DirectCaptureExcept raising the error again after logging it.
DirectCaptureExceptReraise(event, t) ==
    [t EXCEPT !.logs = t.logs \o <<Log("error", "failed_store", event.name)>>,
              !.trace = t.trace \o <<"log:failed_store">>]

\* DirectCaptureExcept calling insert_one a second time after the failure.
DirectCaptureExceptRetry(event, t) ==
    [t EXCEPT !.exc = FALSE,
              !.inserted = t.inserted + 1,
              !.logs = t.logs \o <<Log("error", "failed_store", event.name)>>,
              !.trace = t.trace \o <<"log:failed_store", "insert_one">>]

\* Lines 82-83: except Exception.  The error is logged, nothing is raised again.
DirectCaptureExcept(event, t) ==
    [t EXCEPT !.exc = FALSE,
              !.logs = t.logs \o <<Log("error", "failed_store", event.name)>>,
              !.trace = t.trace \o <<"log:failed_store">>]

\* Lines 65-83.
DirectCapture(event, u, w, debug, time) ==
    LET t == DirectCaptureTry(event, u, w, debug, time) IN
    IF t.exc THEN DirectCaptureExcept(event, t) ELSE t

\* Lines 61-62.
CaptureLog(event, debug) ==
    IF debug THEN <<Log("debug", "event", event.name)>> ELSE <<>>

\* Lines 61-63: the debug line, then _direct_capture, as the order of what they did.
CaptureTrace(event, debug, d) ==
    (IF debug THEN <<"log:event">> ELSE <<>>) \o d.trace

\* The evaluation u of user_id wrote the identity file to the end.
Wrote(u) == \E i \in DOMAIN u.io : u.io[i] = Io("write", TRUE)

\* IsDisabled with the test for a missing client left out.
IsDisabledNever(client) == FALSE

\* IsDisabled deciding from the environment of the moment instead of the handle.
IsDisabledRereadsEnv(client) == TelemetryDisabled

\* Lines 58 and 69: the recorder has no client.
IsDisabled(client) == client = "None"

Capture(event) ==
    /\ pc = "ready"
    /\ IF IsDisabled(mongo_client)
       THEN /\ last' = [NoObs EXCEPT !.op = "capture", !.event = event,
                                     !.cachedBefore = curr_user_id,
                                     !.resolvedBefore = resolved,
                                     !.absentBefore = ~file.exists]
            /\ UNCHANGED <<curr_user_id, file, collection, attempts, clock, resolved,
                           written>>
       ELSE /\ attempts < MaxInserts
            /\ \E mode \in ModesOf(file), new_user_id \in Uuid4Values, w \in InsertOutcomes :
                 LET u == UserId(curr_user_id, file, mode, new_user_id)
                     d == DirectCapture(event, u, w, debug_logging, clock)
                 IN  /\ curr_user_id' = u.cur
                     /\ file' = u.file
                     /\ collection' = IF d.ok
                                      THEN Append(collection, [own |-> TRUE, doc |-> d.doc])
                                      ELSE collection
                     /\ attempts' = attempts + d.inserted
                     /\ clock' = clock + 1
                     /\ resolved' = TRUE
                     /\ written' = IF written.isNone /\ Wrote(u)
                                   THEN Some(u.file.content) ELSE written
                     /\ last' = [NoObs EXCEPT
                                   !.op = "capture", !.event = event,
                                   !.raised = d.exc,
                                   !.logs = CaptureLog(event, debug_logging) \o d.logs,
                                   !.trace = CaptureTrace(event, debug_logging, d),
                                   !.io = u.io, !.enabled = TRUE,
                                   !.inserted = d.inserted, !.stored = IF d.ok THEN 1 ELSE 0,
                                   !.ret = Some(u.ret),
                                   !.cachedBefore = curr_user_id,
                                   !.resolvedBefore = resolved,
                                   !.absentBefore = ~file.exists,
                                   !.generated = IF Wrote(u) THEN new_user_id ELSE <<>>,
                                   !.fsError = \E i \in DOMAIN u.io : ~u.io[i].ok]
    /\ UNCHANGED <<pc, environ, telemetry_disabled, debug_logging, mongo_client, connect,
                   threads>>

(***************************************************************************)
(* The world around the recorder                                           *)
(***************************************************************************)
\* Somebody else creates, rewrites or removes the identity file.
EnvChange ==
    /\ \E f \in Files :
         /\ f /= file
         /\ file' = f
    /\ written' = None
    /\ last' = [NoObs EXCEPT !.op = "env"]
    /\ UNCHANGED <<pc, environ, telemetry_disabled, debug_logging, mongo_client, connect,
                   curr_user_id, collection, attempts, clock, resolved, threads>>

\* The process ends and the next one starts: module state is fresh (line 38),
\* the file and the collection stay.
NewProcess ==
    /\ pc = "ready"
    /\ pc' = "uninit"
    /\ environ' \in Environs
    /\ telemetry_disabled' = FALSE
    /\ debug_logging' = FALSE
    /\ mongo_client' = "None"
    /\ connect' = "none"
    /\ curr_user_id' = None
    /\ resolved' = FALSE
    /\ last' = [NoObs EXCEPT !.op = "start"]
    /\ collection' = [i \in DOMAIN collection |-> [collection[i] EXCEPT !.own = FALSE]]
    /\ UNCHANGED <<file, attempts, clock, written, threads>>

Init ==
    /\ pc = "uninit"
    /\ environ \in Environs
    /\ telemetry_disabled = FALSE
    /\ debug_logging = FALSE
    /\ mongo_client = "None"
    /\ connect = "none"
    /\ curr_user_id = None
    /\ file \in Files
    /\ collection = <<>>
    /\ attempts = 0
    /\ clock = 0
    /\ resolved = FALSE
    /\ written = None
    /\ last = NoObs
    /\ threads = [t \in Threads |-> IdleThread]

Next ==
    \/ Construct
    \/ \E event \in Events : Capture(event)
    \/ EnvChange
    \/ NewProcess

Spec == Init /\ [][Next]_vars

(***************************************************************************)
(* Properties                                                              *)
(***************************************************************************)
\* The last operation was a capture call.
Captured == last.op = "capture"

\* The last operation was a capture call on a recorder with a client.
CapturedEnabled == last.op = "capture" /\ last.enabled

\* The document the last capture stored.
LastDoc == collection[Len(collection)].doc

\* ANONYMIZED_TELEMETRY is "false" in some spelling.
DisableFlagSet ==
    /\ environ.ANONYMIZED_TELEMETRY.set
    /\ Lower(environ.ANONYMIZED_TELEMETRY.v) = STR_false

\* C1: with ANONYMIZED_TELEMETRY equal to "false" in any spelling when the
\* recorder was constructed, no capture call ever calls insert_one: the call
\* just made did not, and the collection holds no document of this process.
C1_DisabledNeverWrites ==
    (pc = "ready" /\ DisableFlagSet) =>
        /\ last.inserted = 0
        /\ \A i \in DOMAIN collection : ~collection[i].own

C1_Witness ==
    /\ pc = "ready"
    /\ environ.ANONYMIZED_TELEMETRY = SetTo(STR_False)
    /\ Captured
    /\ last.event.name = "x"

\* C2: a capture call never raises to its caller, whatever user_id and
\* insert_one did; a failed insert_one leaves one error line and nothing else.
C2_CaptureNeverRaises ==
    Captured =>
        /\ ~last.raised
        /\ (last.inserted = 1 /\ last.stored = 0) =>
               /\ Log("error", "failed_store", last.event.name) \in
                      {last.logs[i] : i \in DOMAIN last.logs}
               /\ ~\E i \in DOMAIN last.logs : last.logs[i].msg = "stored"

C2_Witness ==
    /\ CapturedEnabled
    /\ last.inserted = 1
    /\ last.stored = 0
    /\ last.fsError
    /\ ~last.raised

\* C3: when telemetry is enabled and MongoClient fails in the constructor, the
\* constructor does not raise, the recorder has no client, and no capture of
\* this process calls insert_one.
C3_ConnectFailureDisables ==
    (pc = "ready" /\ connect = "failed") =>
        /\ ~last.raised
        /\ mongo_client = "None"
        /\ last.inserted = 0
        /\ \A i \in DOMAIN collection : ~collection[i].own

C3_Witness ==
    /\ pc = "ready"
    /\ connect = "failed"
    /\ ~telemetry_disabled
    /\ Captured

\* C4: with the flag unset and insert_one succeeding, a capture stores one
\* record with the event's name, the merged properties and a non-empty
\* user_id, whatever the identity file holds.
C4_RecordHasNonEmptyUserId ==
    (CapturedEnabled /\ last.stored = 1) =>
        /\ last.inserted = 1
        /\ collection /= <<>>
        /\ LastDoc.event_name = last.event.name
        /\ LastDoc.properties = DictMerge(last.event.properties, TELEMETRY_EVENT_SETTINGS)
        /\ LastDoc.user_id /= <<>>

\* C5: a second user_id evaluation in a process returns what the first one
\* returned, whatever happened to the file in between; and the first
\* evaluation of a later process, when it meets no file system error, returns
\* the value an earlier process persisted.
C5_ResolutionIdempotent ==
    CapturedEnabled =>
        /\ last.resolvedBefore => last.ret = last.cachedBefore
        /\ (~last.resolvedBefore /\ ~written.isNone /\ ~last.fsError /\ last.generated = <<>>)
               => last.ret = written

\* C6: after the first user_id evaluation of a process every later one
\* returns the cached value and touches the file system in no way.
C6_ResolvedOnce ==
    (CapturedEnabled /\ last.resolvedBefore) =>
        /\ last.io = <<>>
        /\ last.ret = last.cachedBefore

\* C7: when a file system call of the identity resolution fails, capture
\* returns normally, calls insert_one once, and the record carries "UNKNOWN".
C7_FsErrorGivesUnknown ==
    (CapturedEnabled /\ last.fsError) =>
        /\ ~last.raised
        /\ last.inserted = 1
        /\ last.ret = Some(UNKNOWN_USER_ID)
        /\ last.stored = 1 => LastDoc.user_id = UNKNOWN_USER_ID

C7_Witness ==
    /\ CapturedEnabled
    /\ last.fsError
    /\ last.stored = 1
    /\ \E i \in DOMAIN last.io : last.io[i] = Io("write", FALSE)

\* The last capture evaluated user_id against the file system and the file was
\* not there.
ResolvedWithFileAbsent == CapturedEnabled /\ last.io /= <<>> /\ last.absentBefore

\* C8 as stated: with the file absent, the identity is a generated identifier
\* whether or not directory creation and the write succeeded.
C8_GeneratedRegardless ==
    ResolvedWithFileAbsent =>
        /\ \E i \in DOMAIN last.io : last.io[i].op = "makedirs"
        /\ last.ret.v \in Uuid4Values

\* C8 as amended: with the file absent, resolution tries to create the
\* directories and write a generated identifier; the identity is that
\* identifier, now in the file, when every step succeeded, and "UNKNOWN" when
\* one failed.
C8_GeneratedIfWritten ==
    ResolvedWithFileAbsent =>
        /\ \E i \in DOMAIN last.io : last.io[i].op = "makedirs"
        /\ IF last.fsError
           THEN last.ret = Some(UNKNOWN_USER_ID)
           ELSE /\ last.generated \in Uuid4Values
                /\ last.ret = Some(last.generated)
                /\ file = Present(last.generated)

C8_Witness ==
    /\ ResolvedWithFileAbsent
    /\ last.fsError
    /\ last.ret = Some(UNKNOWN_USER_ID)
    /\ file = Present(<<>>)

\* C9: in a stored record every key of the static settings holds the static
\* value, also when the event has that key, and every other event property is
\* stored as the event gave it.
C9_StaticSettingsWin ==
    (CapturedEnabled /\ last.stored = 1) =>
        /\ \A k \in DOMAIN TELEMETRY_EVENT_SETTINGS :
               LastDoc.properties[k] = TELEMETRY_EVENT_SETTINGS[k]
        /\ \A k \in DOMAIN last.event.properties \ DOMAIN TELEMETRY_EVENT_SETTINGS :
               LastDoc.properties[k] = last.event.properties[k]

C9_Witness ==
    /\ CapturedEnabled
    /\ last.stored = 1
    /\ "process_person_profile" \in DOMAIN last.event.properties
    /\ last.event.properties.process_person_profile /= TELEMETRY_EVENT_SETTINGS.process_person_profile
    /\ "a" \in DOMAIN LastDoc.properties

\* C10: once the program has written an identifier to the identity file, no
\* later resolution of this or of a later process changes the file: as long
\* as nobody else touches it, the file holds the identifier written first.
C10_PersistedNeverOverwritten ==
    ~written.isNone => file = Present(written.v)

C10_Witness ==
    /\ ~written.isNone
    /\ CapturedEnabled
    /\ ~last.resolvedBefore
    /\ last.io /= <<>>
    /\ last.generated = <<>>
    /\ \E i \in DOMAIN collection : ~collection[i].own /\ collection[i].doc.user_id = written.v

\* The application changes ANONYMIZED_TELEMETRY or BROWSER_USE_LOGGING_LEVEL while
\* the recorder exists; lines 41-42 are the only reads of them.
SetEnviron ==
    /\ pc = "ready"
    /\ \E env \in Environs :
         /\ env /= environ
         /\ environ' = env
    /\ last' = [NoObs EXCEPT !.op = "setenv"]
    /\ UNCHANGED <<pc, telemetry_disabled, debug_logging, mongo_client, connect,
                   curr_user_id, file, collection, attempts, clock, resolved, written,
                   threads>>

NextEnv ==
    \/ Construct
    \/ \E event \in Events : Capture(event)
    \/ EnvChange
    \/ SetEnviron

\* The life of one recorder, from any start, with the identity file and the
\* environment variables changing under it.
SpecEnv == Init /\ [][NextEnv]_vars

\* C11: a capture call on a recorder without a client does nothing at all: no
\* insert_one, no evaluation of user_id (the cached identity, the file, the
\* collection and the counters stay as they are, no file system call is
\* made), no log line and no exception, with debug logging on or off.
C11_DisabledCaptureNoEffect ==
    [][(pc = "ready" /\ mongo_client = "None" /\ last'.op = "capture") =>
          /\ UNCHANGED <<curr_user_id, file, collection, attempts, clock, resolved, written>>
          /\ last'.logs = <<>>
          /\ last'.io = <<>>
          /\ last'.inserted = 0
          /\ last'.ret = None
          /\ ~last'.raised]_vars

C11_Witness ==
    /\ Captured
    /\ mongo_client = "None"
    /\ debug_logging
    /\ curr_user_id = None
    /\ ~file.exists

\* C12: once user_id has fallen back to "UNKNOWN" in a process, every later
\* capture of the process records "UNKNOWN" and makes no file system call,
\* whatever the file has become in the meantime.
C12_UnknownIsCached ==
    (CapturedEnabled /\ last.resolvedBefore /\ last.cachedBefore = Some(UNKNOWN_USER_ID)) =>
        /\ last.io = <<>>
        /\ last.ret = Some(UNKNOWN_USER_ID)
        /\ curr_user_id = Some(UNKNOWN_USER_ID)
        /\ last.stored = 1 => LastDoc.user_id = UNKNOWN_USER_ID

C12_Witness ==
    /\ CapturedEnabled
    /\ last.resolvedBefore
    /\ last.cachedBefore = Some(UNKNOWN_USER_ID)
    /\ file = Present(<<"c", "3", "\n">>)
    /\ last.stored = 1

\* C13: between construction and the end of the process nothing changes
\* whether the recorder is enabled: the client handle stays what __init__ left,
\* every capture acts as enabled exactly when connecting succeeded in
\* __init__, also after failed inserts and after changes of the environment
\* variables; and an identity once set is never unset, a non-empty one never
\* replaced.
C13_StateFixedAtConstruction ==
    [][(pc = "ready" /\ pc' = "ready") =>
          /\ mongo_client' = mongo_client
          /\ mongo_client = "Client" <=> connect = "ok"
          /\ last'.op = "capture" => (last'.enabled <=> connect = "ok")
          /\ ~curr_user_id.isNone => ~curr_user_id'.isNone
          /\ Truthy(curr_user_id) => curr_user_id' = curr_user_id]_vars

\* A recorder built with telemetry on still stores a record after the
\* environment was changed to switch telemetry off.
C13_Witness ==
    /\ CapturedEnabled
    /\ last.resolvedBefore
    /\ last.stored = 1
    /\ DisableFlagSet
    /\ attempts = 2

\* C14: every capture on an enabled recorder calls insert_one exactly once,
\* whether the call succeeds or fails, and nothing else ever calls it: a
\* failed write is retried neither by that call nor by a later one.
C14_OneAttemptPerCapture ==
    [][IF pc = "ready" /\ mongo_client = "Client" /\ last'.op = "capture"
       THEN /\ attempts' = attempts + 1
            /\ last'.inserted = 1
            /\ Len(collection') = Len(collection) + last'.stored
            /\ Len(SelectSeq(last'.trace, LAMBDA x : x = "insert_one")) = 1
       ELSE /\ attempts' = attempts
            /\ Len(collection') = Len(collection)]_vars

\* A capture after a failed one: one more call, one record in all.
C14_Witness ==
    /\ CapturedEnabled
    /\ attempts = 2
    /\ Len(collection) = 1
    /\ last.stored = 1

\* The positions of x in the trace of the last operation.
TracePos(x) == {i \in DOMAIN last.trace : last.trace[i] = x}

\* C15: on an enabled recorder with debug logging on, a capture writes the
\* event line before it calls insert_one, and the confirmation line after
\* the call and only when the call succeeded; with debug logging off it
\* writes neither; and no capture writes more than two log lines, the error
\* line of a failed write included.
C15_DebugLinesAroundWrite ==
    CapturedEnabled =>
        /\ TracePos("insert_one") /= {}
        /\ debug_logging =>
               /\ last.trace[1] = "log:event"
               /\ TracePos("log:event") = {1}
               /\ last.logs[1] = Log("debug", "event", last.event.name)
        /\ TracePos("log:stored") /= {} <=> (debug_logging /\ last.stored = 1)
        /\ \A i \in TracePos("log:stored"), j \in TracePos("insert_one") : j < i
        /\ TracePos("log:failed_store") /= {} <=> last.stored = 0
        /\ ~debug_logging => TracePos("log:event") = {} /\ TracePos("log:stored") = {}
        /\ Len(last.logs) = Len(last.trace) - Cardinality(TracePos("insert_one"))
        /\ Len(last.logs) <= 2

\* Debug logging on and the write failed: the event line, the call, the error line.
C15_Witness ==
    /\ CapturedEnabled
    /\ debug_logging
    /\ last.stored = 0
    /\ last.trace = <<"log:event", "insert_one", "log:failed_store">>
    /\ Len(last.logs) = 2

(***************************************************************************)
(* capture called from two threads of one process.  Nothing in the class   *)
(* takes a lock, so a call is a sequence of steps that interleave with the *)
(* steps of the other thread: the cache test (87), os.path.exists (91),    *)
(* makedirs and open for writing, which truncates (92-94), the write       *)
(* (95), the read (98-99), the assignment to _curr_user_id (96, 99), the   *)
(* read of _curr_user_id for the return (88, 102), and insert_one (73-83). *)
(* The file system is healthy here: the steps use the mode "ok".           *)
(***************************************************************************)
\* Calls that have started and not yet reached insert_one.
InFlight == {t \in Threads : threads[t].at \notin {"idle", "done"}}

\* Lines 57-63, 69-74, 87: the call up to the cache test of user_id.
TCapture(t, event) ==
    /\ pc = "ready"
    /\ threads[t].at \in {"idle", "done"}
    /\ attempts + Cardinality(InFlight) < MaxInserts
    /\ threads' = [threads EXCEPT ![t] =
           IF IsDisabled(mongo_client)
           THEN [IdleThread EXCEPT !.at = "done", !.event = event]
           ELSE [IdleThread EXCEPT
                   !.at = IF UserIdCached(curr_user_id) THEN "return" ELSE "exists",
                   !.event = event,
                   !.logs = CaptureLog(event, debug_logging),
                   !.first = curr_user_id.isNone,
                   !.absentAtCall = ~file.exists]]
    /\ UNCHANGED <<pc, environ, telemetry_disabled, debug_logging, mongo_client, connect,
                   curr_user_id, file, collection, attempts, clock, resolved, written, last>>

\* Line 91.
TExists(t) ==
    /\ threads[t].at = "exists"
    /\ threads' = [threads EXCEPT ![t].at =
                       IF PathExists(file, "ok") THEN "read" ELSE "open_w"]
    /\ UNCHANGED <<pc, environ, telemetry_disabled, debug_logging, mongo_client, connect,
                   curr_user_id, file, collection, attempts, clock, resolved, written, last>>

\* Lines 92-94: the directories, open(..., "w"), which leaves the file empty,
\* and the new identifier.
TOpenWrite(t) ==
    /\ threads[t].at = "open_w"
    /\ \E new_user_id \in Uuid4Values :
         threads' = [threads EXCEPT ![t].at = "write", ![t].val = new_user_id]
    /\ file' = Present(<<>>)
    /\ UNCHANGED <<pc, environ, telemetry_disabled, debug_logging, mongo_client, connect,
                   curr_user_id, collection, attempts, clock, resolved, written, last>>

\* Line 95 and the end of the with block: the identifier reaches the file.
TWrite(t) ==
    /\ threads[t].at = "write"
    /\ file' = Present(threads[t].val)
    /\ written' = IF written.isNone THEN Some(threads[t].val) ELSE written
    /\ threads' = [threads EXCEPT ![t].at = "assign"]
    /\ UNCHANGED <<pc, environ, telemetry_disabled, debug_logging, mongo_client, connect,
                   curr_user_id, collection, attempts, clock, resolved, last>>

\* Lines 98-99, right-hand side: open, read, strip.
TRead(t) ==
    /\ threads[t].at = "read"
    /\ threads' = [threads EXCEPT ![t].at = "assign", ![t].val = Strip(file.content)]
    /\ UNCHANGED <<pc, environ, telemetry_disabled, debug_logging, mongo_client, connect,
                   curr_user_id, file, collection, attempts, clock, resolved, written, last>>

\* Lines 96 and 99: the assignment to self._curr_user_id.
TAssign(t) ==
    /\ threads[t].at = "assign"
    /\ curr_user_id' = Some(threads[t].val)
    /\ threads' = [threads EXCEPT ![t].at = "return"]
    /\ UNCHANGED <<pc, environ, telemetry_disabled, debug_logging, mongo_client, connect,
                   file, collection, attempts, clock, resolved, written, last>>

\* Lines 88 and 102: return self._curr_user_id, as it is at this moment.
TReturn(t) ==
    /\ threads[t].at = "return"
    /\ threads' = [threads EXCEPT ![t].at = "insert", ![t].ret = curr_user_id]
    /\ resolved' = TRUE
    /\ UNCHANGED <<pc, environ, telemetry_disabled, debug_logging, mongo_client, connect,
                   curr_user_id, file, collection, attempts, clock, written, last>>

\* Lines 73-83: the document, insert_one, the log lines.
TInsert(t) ==
    /\ threads[t].at = "insert"
    /\ \E w \in InsertOutcomes :
         LET u == [ret |-> threads[t].ret.v]
             d == DirectCapture(threads[t].event, u, w, debug_logging, clock)
         IN  /\ collection' = IF d.ok
                              THEN Append(collection, [own |-> TRUE, doc |-> d.doc])
                              ELSE collection
             /\ attempts' = attempts + d.inserted
             /\ threads' = [threads EXCEPT ![t].at = "done",
                                           ![t].logs = threads[t].logs \o d.logs]
    /\ clock' = clock + 1
    /\ UNCHANGED <<pc, environ, telemetry_disabled, debug_logging, mongo_client, connect,
                   curr_user_id, file, resolved, written, last>>

NextThreads ==
    \/ Construct
    \/ \E t \in Threads, event \in Events : TCapture(t, event)
    \/ \E t \in Threads : TExists(t)
    \/ \E t \in Threads : TOpenWrite(t)
    \/ \E t \in Threads : TWrite(t)
    \/ \E t \in Threads : TRead(t)
    \/ \E t \in Threads : TAssign(t)
    \/ \E t \in Threads : TReturn(t)
    \/ \E t \in Threads : TInsert(t)

\* One process, its recorder called from two threads.
SpecThreads == Init /\ [][NextThreads]_vars

\* Thread t has finished a call that was a first identity resolution started
\* with the identity file absent.
RacedFirst(t) ==
    /\ threads[t].at = "done"
    /\ threads[t].first
    /\ threads[t].absentAtCall
    /\ ~threads[t].ret.isNone

\* C16: when two threads have both made the first identity resolution, both
\* started with the file absent, then once both are finished the cached
\* identity is what the identity file holds.
C16_CacheEqualsFileAfterRace ==
    (\A t \in Threads : RacedFirst(t)) =>
        /\ file.exists
        /\ curr_user_id = Some(file.content)

\* C17: no two records stored by the process have different user_id values.
C17_OneUserIdPerProcess ==
    \A i, j \in DOMAIN collection :
        (collection[i].own /\ collection[j].own) =>
            collection[i].doc.user_id = collection[j].doc.user_id

====
